---- MODULE Spec2Model ----
(***************************************************************************)
(* Model of sync-tokens-example (src/src/main.rs): a TCP listener started  *)
(* on a background task (run_server / run_server_int), whose startup is    *)
(* published through a CompletionToken and whose accept loop is raced      *)
(* against a CancelationToken.                                             *)
(*                                                                         *)
(* The two tokens come from the sync_tokens crate, whose code is not in    *)
(* src/.  Their operations (complete, wait, cancel, allow_cancel) are      *)
(* modelled from sections 3 and 4 of spec.md; everything else is           *)
(* translated from main.rs.  The caller of run_server() is modelled as an  *)
(* environment that may wait on the completion token and call cancel() at  *)
(* any time; main() (lines 60-80) is one of its schedules.                 *)
(***************************************************************************)
EXTENDS Integers, Naturals, FiniteSets, Sequences, TLC

\* ------------------------------------------------------------------ bounds
\* Ephemeral ports the platform may assign to the wildcard bind: 1..MaxPort.
MaxPort == 2
\* The count of connections taken by the supervisor saturates here, so that
\* connections can keep arriving for ever.
MaxConns == 2
\* How many times the caller calls cancel().
MaxCancels == 2
\* How many callers wait on the completion token.
NWaiters == 2
\* Slots for accept tasks that exist at the same time.
MaxTasks == 2
\* The count of accept tasks spawned after the first cancel() saturates here.
MaxLateSpawns == 2

Ports == 1..MaxPort
Waiters == 1..NWaiters
TaskIds == 1..MaxTasks

VARIABLES
    pc,            \* where run_server_int is: bind, complete, spawn, race, racing, done
    result,        \* what awaiting server_future yields: "none" while running
    completion,    \* shared state of the CompletionToken / Completable pair
    cancellation,  \* shared state of the CancelationToken / Cancelable pair
    cancelCalls,   \* number of calls of cancel() so far
    boundAddr,     \* port the listener was bound to, 0 before the bind
    task,          \* state of every accept task
    incoming,      \* the task incoming_future joins, 0 when there is none
    listener,      \* who owns the TcpListener: [by, id], id # 0 for a task
    accepted,      \* connections the supervisor took from a won race (saturating)
    waiter,        \* the callers awaiting completion_token
    how,           \* the step that terminated run_server_int
    completeCalls, \* number of calls of complete() so far
    cancelPc,      \* where run_server_int was at the first cancel()
    raceOp,        \* state of the accept task when the latest race began
    lateSpawns     \* accept tasks spawned after the first cancel() (saturating)

vars == <<pc, result, completion, cancellation, cancelCalls, boundAddr, task,
          incoming, listener, accepted, waiter, how, completeCalls, cancelPc,
          raceOp, lateSpawns>>

\* ------------------------------------------------- CompletionToken (crate)
NoValue == [ok |-> FALSE, addr |-> 0]

\* CompletionToken::new(): the shared state starts Unset.
CompletionNew == [state |-> "Unset", value |-> NoValue]

\* Completable::complete(value): Unset -> Set(value).
complete(sig, v) == [state |-> "Set", value |-> v]

\* Awaiting the CompletionToken is ready exactly when the state is Set.
WaitReady(sig) == sig.state = "Set"

\* The value a resumed waiter gets.
WaitValue(sig) == sig.value

\* ------------------------------------------------ CancelationToken (crate)
\* CancelationToken::new(): the shared state starts Armed.
CancelationNew == "Armed"

\* CancelationToken::cancel(): Armed -> Canceled, idempotent.
cancel(sig) == "Canceled"

IsCanceled(sig) == sig = "Canceled"

\* Cancelable::allow_cancel at the moment it is called: a race that starts
\* when the signal is already Canceled returns the fallback at once.
RaceStartsCanceled(sig) == IsCanceled(sig)

\* Cancelable::allow_cancel while suspended: the results the race may
\* resolve to.  opState is the state of the raced operation; both sides
\* ready at once leaves the choice to the scheduler.
RaceOutcomes(sig, opState, fallback) ==
    (IF opState \in {"ok", "err"} THEN {opState} ELSE {})
    \cup (IF IsCanceled(sig) THEN {fallback} ELSE {})

\* ------------------------------------------------------------- main.rs
\* line 47: Err(Error::new(ErrorKind::Interrupted, "Server terminated"))
Fallback == "Interrupted"

\* listener.local_addr() of the bound listener (line 35)
local_addr(port) == [ok |-> TRUE, addr |-> port]

\* Owners of the TcpListener value.
Unbound == [by |-> "unbound", id |-> 0]
HeldBySupervisor == [by |-> "supervisor", id |-> 0]
HeldByTask(i) == [by |-> "task", id |-> i]
Dropped == [by |-> "dropped", id |-> 0]

\* lines 45-48: returning from run_server_int drops incoming_future, which
\* detaches task i; the output of a detached task that has finished, and
\* the listener in it, is dropped.
ListenerAfterAbandon(i) == IF task[i] = "ok" THEN Dropped ELSE listener

FreeTasks == {i \in TaskIds : task[i] = "none"}

Init ==
    /\ pc = "bind"
    /\ result = "none"
    /\ completion = CompletionNew
    /\ cancellation = CancelationNew
    /\ cancelCalls = 0
    /\ boundAddr = 0
    /\ task = [i \in TaskIds |-> "none"]
    /\ incoming = 0
    /\ listener = Unbound
    /\ accepted = 0
    /\ waiter = [w \in Waiters |->
                    [st |-> "idle", early |-> FALSE, seen |-> NoValue]]
    /\ how = "none"
    /\ completeCalls = 0
    /\ cancelPc = "none"
    /\ raceOp = "none"
    /\ lateSpawns = 0

\* Variant of BindOk: the accept loop is entered right after the bind and
\* the address is never published.
BindOkSkipsPublish ==
    /\ pc = "bind"
    /\ \E p \in Ports : boundAddr' = p
    /\ listener' = HeldBySupervisor
    /\ pc' = "spawn"
    /\ UNCHANGED <<result, completion, cancellation, cancelCalls, task,
                   incoming, accepted, waiter, how, completeCalls, cancelPc,
                   raceOp, lateSpawns>>

\* line 32: TcpListener::bind(0.0.0.0:0).await succeeds on some port
BindOk ==
    /\ pc = "bind"
    /\ \E p \in Ports : boundAddr' = p
    /\ listener' = HeldBySupervisor
    /\ pc' = "complete"
    /\ UNCHANGED <<result, completion, cancellation, cancelCalls, task,
                   incoming, accepted, waiter, how,
                   completeCalls, cancelPc,
                   raceOp, lateSpawns>>

\* Variant of BindFail: a bind that fails after cancel() is reported as the
\* Interrupted error.
BindFailReportsCancel ==
    /\ pc = "bind"
    /\ pc' = "done"
    /\ result' = IF IsCanceled(cancellation) THEN Fallback ELSE "BindError"
    /\ how' = "bind"
    /\ UNCHANGED <<completion, cancellation, cancelCalls, boundAddr, task,
                   incoming, listener, accepted, waiter,
                   completeCalls, cancelPc, raceOp, lateSpawns>>

\* line 32: the bind fails and `?` returns the error; the Completable is
\* dropped without complete() having been called
BindFail ==
    /\ pc = "bind"
    /\ pc' = "done"
    /\ result' = "BindError"
    /\ how' = "bind"
    /\ UNCHANGED <<completion, cancellation, cancelCalls, boundAddr, task,
                   incoming, listener, accepted, waiter,
                   completeCalls, cancelPc,
                   raceOp, lateSpawns>>

\* Variant of Complete: the requested address socket_addr (0.0.0.0:0) is
\* published instead of the listener's local address.
CompleteRequestedAddr ==
    /\ pc = "complete"
    /\ completion' = complete(completion, [ok |-> TRUE, addr |-> 0])
    /\ completeCalls' = completeCalls + 1
    /\ pc' = "spawn"
    /\ UNCHANGED <<result, cancellation, cancelCalls, boundAddr, task,
                   incoming, listener, accepted, waiter, how, cancelPc,
                   raceOp, lateSpawns>>

\* Variant of Complete: the address is published only while the server has
\* not been asked to stop.
CompleteUnlessCanceled ==
    /\ pc = "complete"
    /\ IF IsCanceled(cancellation)
       THEN UNCHANGED <<completion, completeCalls>>
       ELSE /\ completion' = complete(completion, local_addr(boundAddr))
            /\ completeCalls' = completeCalls + 1
    /\ pc' = "spawn"
    /\ UNCHANGED <<result, cancellation, cancelCalls, boundAddr, task,
                   incoming, listener, accepted, waiter, how, cancelPc,
                   raceOp, lateSpawns>>

\* lines 35-36: completable.complete(listener.local_addr())
Complete ==
    /\ pc = "complete"
    /\ completion' = complete(completion, local_addr(boundAddr))
    /\ completeCalls' = completeCalls + 1
    /\ pc' = "spawn"
    /\ UNCHANGED <<result, cancellation, cancelCalls, boundAddr, task,
                   incoming, listener, accepted, waiter, how, cancelPc,
                   raceOp, lateSpawns>>

\* Variant of SpawnAccept: the task gets a clone of the listener and the
\* supervisor keeps its own.
SpawnAcceptKeepsListener ==
    /\ pc = "spawn"
    /\ listener = HeldBySupervisor
    /\ FreeTasks # {}
    /\ LET i == CHOOSE j \in FreeTasks : \A k \in FreeTasks : j <= k
       IN /\ task' = [task EXCEPT ![i] = "accepting"]
          /\ incoming' = i
    /\ lateSpawns' = IF cancelCalls >= 1 /\ lateSpawns < MaxLateSpawns
                     THEN lateSpawns + 1 ELSE lateSpawns
    /\ pc' = "race"
    /\ UNCHANGED <<result, completion, cancellation, cancelCalls, boundAddr,
                   accepted, waiter, how, completeCalls, cancelPc, raceOp,
                   listener>>

\* lines 39 and 50: incoming_future = task::spawn(accept(listener))
SpawnAccept ==
    /\ pc = "spawn"
    /\ listener = HeldBySupervisor
    /\ FreeTasks # {}
    /\ LET i == CHOOSE j \in FreeTasks : \A k \in FreeTasks : j <= k
       IN /\ task' = [task EXCEPT ![i] = "accepting"]
          /\ incoming' = i
          /\ listener' = HeldByTask(i)
    /\ lateSpawns' = IF cancelCalls >= 1 /\ lateSpawns < MaxLateSpawns
                     THEN lateSpawns + 1 ELSE lateSpawns
    /\ pc' = "race"
    /\ UNCHANGED <<result, completion, cancellation, cancelCalls, boundAddr,
                   accepted, waiter, how,
                   completeCalls, cancelPc,
                   raceOp>>

\* Variant of RaceBegin: an accept task that has already finished is taken
\* before the cancellation state is looked at.
RaceBeginPrefersReady ==
    /\ pc = "race"
    /\ raceOp' = task[incoming]
    /\ IF RaceStartsCanceled(cancellation) /\ task[incoming] = "accepting"
       THEN /\ pc' = "done"
            /\ result' = Fallback
            /\ how' = "race_start"
            /\ listener' = ListenerAfterAbandon(incoming)
       ELSE /\ pc' = "racing"
            /\ UNCHANGED <<result, how, listener>>
    /\ UNCHANGED <<completion, cancellation, cancelCalls, boundAddr, task,
                   incoming, accepted, waiter,
                   completeCalls, cancelPc, lateSpawns>>

\* Variant of RaceBegin: the race is entered without looking at the
\* cancellation state, as when the loop awaits incoming_future first.
RaceBeginNoCancelCheck ==
    /\ pc = "race"
    /\ raceOp' = task[incoming]
    /\ pc' = "racing"
    /\ UNCHANGED <<result, how, completion, cancellation, cancelCalls,
                   boundAddr, task, incoming, listener, accepted, waiter,
                   completeCalls, cancelPc, lateSpawns>>

\* line 45: cancelable.allow_cancel(incoming_future, fallback) is called
RaceBegin ==
    /\ pc = "race"
    /\ raceOp' = task[incoming]
    /\ IF RaceStartsCanceled(cancellation)
       THEN /\ pc' = "done"
            /\ result' = Fallback
            /\ how' = "race_start"
            /\ listener' = ListenerAfterAbandon(incoming)
       ELSE /\ pc' = "racing"
            /\ UNCHANGED <<result, how, listener>>
    /\ UNCHANGED <<completion, cancellation, cancelCalls, boundAddr, task,
                   incoming, accepted, waiter,
                   completeCalls, cancelPc, lateSpawns>>

\* Variant of RaceCanceled: the loop is left on cancellation and the
\* function ends with Ok(()).
RaceCanceledBreaksOk ==
    /\ pc = "racing"
    /\ Fallback \in RaceOutcomes(cancellation, task[incoming], Fallback)
    /\ pc' = "done"
    /\ listener' = ListenerAfterAbandon(incoming)
    /\ result' = "Ok"
    /\ how' = "race_cancel"
    /\ UNCHANGED <<completion, cancellation, cancelCalls, boundAddr, task,
                   incoming, accepted, waiter,
                   completeCalls, cancelPc,
                   raceOp, lateSpawns>>

\* Variant of RaceCanceled: the fallback is returned only once the accept
\* task has finished, as when incoming_future is joined before returning.
RaceCanceledAfterJoin ==
    /\ pc = "racing"
    /\ IsCanceled(cancellation)
    /\ task[incoming] \in {"ok", "err"}
    /\ pc' = "done"
    /\ listener' = ListenerAfterAbandon(incoming)
    /\ result' = Fallback
    /\ how' = "race_cancel"
    /\ UNCHANGED <<completion, cancellation, cancelCalls, boundAddr, task,
                   incoming, accepted, waiter,
                   completeCalls, cancelPc,
                   raceOp, lateSpawns>>

\* lines 45-48: the suspended race resolves to the fallback, `?` returns it
RaceCanceled ==
    /\ pc = "racing"
    /\ Fallback \in RaceOutcomes(cancellation, task[incoming], Fallback)
    /\ pc' = "done"
    /\ listener' = ListenerAfterAbandon(incoming)
    /\ result' = Fallback
    /\ how' = "race_cancel"
    /\ UNCHANGED <<completion, cancellation, cancelCalls, boundAddr, task,
                   incoming, accepted, waiter,
                   completeCalls, cancelPc,
                   raceOp, lateSpawns>>

\* Variant of RaceAccepted: the accept task loops on a shared listener and
\* goes on accepting while the supervisor spawns the next one.
RaceAcceptedTaskKeepsAccepting ==
    /\ pc = "racing"
    /\ "ok" \in RaceOutcomes(cancellation, task[incoming], Fallback)
    /\ task' = [task EXCEPT ![incoming] = "accepting"]
    /\ listener' = HeldBySupervisor
    /\ incoming' = 0
    /\ accepted' = IF accepted < MaxConns THEN accepted + 1 ELSE accepted
    /\ pc' = "spawn"
    /\ UNCHANGED <<result, completion, cancellation, cancelCalls, boundAddr,
                   waiter, how, completeCalls, cancelPc, raceOp, lateSpawns>>

\* Variant of RaceAccepted: the loop starts above the publication of the
\* address, so every accepted connection publishes it again.
RaceAcceptedRepublishes ==
    /\ pc = "racing"
    /\ "ok" \in RaceOutcomes(cancellation, task[incoming], Fallback)
    /\ task' = [task EXCEPT ![incoming] = "none"]
    /\ listener' = HeldBySupervisor
    /\ incoming' = 0
    /\ accepted' = IF accepted < MaxConns THEN accepted + 1 ELSE accepted
    /\ pc' = "complete"
    /\ UNCHANGED <<result, completion, cancellation, cancelCalls, boundAddr,
                   waiter, how, completeCalls, cancelPc,
                   raceOp, lateSpawns>>

\* lines 45-50: the race resolves to Ok((listener, stream)); the listener
\* comes back to the supervisor and the loop goes on to line 50
RaceAccepted ==
    /\ pc = "racing"
    /\ "ok" \in RaceOutcomes(cancellation, task[incoming], Fallback)
    /\ task' = [task EXCEPT ![incoming] = "none"]
    /\ listener' = HeldBySupervisor
    /\ incoming' = 0
    /\ accepted' = IF accepted < MaxConns THEN accepted + 1 ELSE accepted
    /\ pc' = "spawn"
    /\ UNCHANGED <<result, completion, cancellation, cancelCalls, boundAddr,
                   waiter, how,
                   completeCalls, cancelPc,
                   raceOp, lateSpawns>>

\* Variant of RaceFailed: after an accept error the server starts over
\* and binds a new listener.
RaceFailedRebinds ==
    /\ pc = "racing"
    /\ "err" \in RaceOutcomes(cancellation, task[incoming], Fallback)
    /\ task' = [task EXCEPT ![incoming] = "none"]
    /\ incoming' = 0
    /\ pc' = "bind"
    /\ UNCHANGED <<result, how, completion, cancellation, cancelCalls,
                   boundAddr, listener, accepted, waiter, completeCalls,
                   cancelPc, raceOp, lateSpawns>>

\* Variant of RaceFailed: the accept error is logged and the loop goes on
\* to spawn the next accept attempt.
RaceFailedRetries ==
    /\ pc = "racing"
    /\ "err" \in RaceOutcomes(cancellation, task[incoming], Fallback)
    /\ task' = [task EXCEPT ![incoming] = "none"]
    /\ incoming' = 0
    /\ listener' = HeldBySupervisor
    /\ pc' = "spawn"
    /\ UNCHANGED <<result, how, completion, cancellation, cancelCalls,
                   boundAddr, accepted, waiter, completeCalls, cancelPc,
                   raceOp, lateSpawns>>

\* Variant of RaceFailed: the accept error is reported as the Interrupted
\* error of the fallback.
RaceFailedAsInterrupted ==
    /\ pc = "racing"
    /\ "err" \in RaceOutcomes(cancellation, task[incoming], Fallback)
    /\ task' = [task EXCEPT ![incoming] = "none"]
    /\ incoming' = 0
    /\ pc' = "done"
    /\ result' = Fallback
    /\ how' = "race_op"
    /\ UNCHANGED <<completion, cancellation, cancelCalls, boundAddr,
                   listener, accepted, waiter, completeCalls, cancelPc,
                   raceOp, lateSpawns>>

\* lines 45-48: the race resolves to the accept task's Err, `?` returns it
RaceFailed ==
    /\ pc = "racing"
    /\ "err" \in RaceOutcomes(cancellation, task[incoming], Fallback)
    /\ task' = [task EXCEPT ![incoming] = "none"]
    /\ incoming' = 0
    /\ pc' = "done"
    /\ result' = "AcceptError"
    /\ how' = "race_op"
    /\ UNCHANGED <<completion, cancellation, cancelCalls, boundAddr,
                   listener, accepted, waiter,
                   completeCalls, cancelPc,
                   raceOp, lateSpawns>>

\* Variant of AcceptOk: accept() loops, so a task that has accepted a
\* connection is followed by another accept attempt on the listener.
AcceptOkThenAcceptsAgain(i) ==
    /\ task[i] = "accepting"
    /\ IF FreeTasks # {}
       THEN LET j == CHOOSE k \in FreeTasks : \A l \in FreeTasks : k <= l
            IN /\ task' = [task EXCEPT ![i] = "ok", ![j] = "accepting"]
               /\ listener' = HeldByTask(j)
       ELSE /\ task' = [task EXCEPT ![i] = "ok"]
            /\ listener' = listener
    /\ UNCHANGED <<pc, result, completion, cancellation, cancelCalls,
                   boundAddr, incoming, accepted, waiter, how,
                   completeCalls, cancelPc, raceOp, lateSpawns>>

\* lines 55-56: listener.accept().await yields a stream; the task ends with
\* Ok((listener, stream)), which is dropped at once when run_server_int has
\* returned and nothing joins the task any more
AcceptOk(i) ==
    /\ task[i] = "accepting"
    /\ task' = [task EXCEPT ![i] = "ok"]
    /\ listener' = IF pc = "done" /\ listener = HeldByTask(i)
                   THEN Dropped ELSE listener
    /\ UNCHANGED <<pc, result, completion, cancellation, cancelCalls,
                   boundAddr, incoming, accepted, waiter, how,
                   completeCalls, cancelPc,
                   raceOp, lateSpawns>>

\* line 55: listener.accept().await fails; `?` ends the task with the error
\* and drops the listener
AcceptFail(i) ==
    /\ task[i] = "accepting"
    /\ task' = [task EXCEPT ![i] = "err"]
    /\ listener' = IF listener = HeldByTask(i) THEN Dropped ELSE listener
    /\ UNCHANGED <<pc, result, completion, cancellation, cancelCalls,
                   boundAddr, incoming, accepted, waiter, how,
                   completeCalls, cancelPc,
                   raceOp, lateSpawns>>

\* Variant of Cancel: a call made when the task has ended marks its outcome
\* as Interrupted.
CancelOverwritesOutcome ==
    /\ cancelCalls < MaxCancels
    /\ cancelCalls' = cancelCalls + 1
    /\ cancellation' = cancel(cancellation)
    /\ cancelPc' = IF cancelCalls = 0 THEN pc ELSE cancelPc
    /\ result' = IF pc = "done" THEN Fallback ELSE result
    /\ UNCHANGED <<pc, completion, boundAddr, task, incoming,
                   listener, accepted, waiter, how, completeCalls,
                   raceOp, lateSpawns>>

\* Variant of Cancel: a call on a token that is already canceled arms it
\* again.
CancelRearms ==
    /\ cancelCalls < MaxCancels
    /\ cancelCalls' = cancelCalls + 1
    /\ cancellation' = IF IsCanceled(cancellation) THEN CancelationNew
                       ELSE cancel(cancellation)
    /\ cancelPc' = IF cancelCalls = 0 THEN pc ELSE cancelPc
    /\ UNCHANGED <<pc, result, completion, boundAddr, task, incoming,
                   listener, accepted, waiter, how, completeCalls,
                   raceOp, lateSpawns>>

\* line 74: cancelation_token.cancel()
Cancel ==
    /\ cancelCalls < MaxCancels
    /\ cancelCalls' = cancelCalls + 1
    /\ cancellation' = cancel(cancellation)
    /\ cancelPc' = IF cancelCalls = 0 THEN pc ELSE cancelPc
    /\ UNCHANGED <<pc, result, completion, boundAddr, task, incoming,
                   listener, accepted, waiter, how, completeCalls,
                   raceOp, lateSpawns>>

\* line 66: a caller starts awaiting completion_token
WaitBegin(w) ==
    /\ waiter[w].st = "idle"
    /\ waiter' = [waiter EXCEPT ![w].st = "waiting",
                                ![w].early = ~WaitReady(completion)]
    /\ UNCHANGED <<pc, result, completion, cancellation, cancelCalls,
                   boundAddr, task, incoming, listener, accepted, how,
                   completeCalls, cancelPc,
                   raceOp, lateSpawns>>

\* line 66: the await resumes with the stored value
WaitResolve(w) ==
    /\ waiter[w].st = "waiting"
    /\ WaitReady(completion)
    /\ waiter' = [waiter EXCEPT ![w].st = "resolved",
                                ![w].seen = WaitValue(completion)]
    /\ UNCHANGED <<pc, result, completion, cancellation, cancelCalls,
                   boundAddr, task, incoming, listener, accepted, how,
                   completeCalls, cancelPc,
                   raceOp, lateSpawns>>

Supervisor ==
    \/ BindOk
    \/ BindFail
    \/ Complete
    \/ SpawnAccept
    \/ RaceBegin
    \/ RaceCanceled
    \/ RaceAccepted
    \/ RaceFailed

Next ==
    \/ Supervisor
    \/ \E i \in TaskIds : AcceptOk(i)
    \/ \E i \in TaskIds : AcceptFail(i)
    \/ Cancel
    \/ \E w \in Waiters : WaitBegin(w)
    \/ \E w \in Waiters : WaitResolve(w)

Spec == Init /\ [][Next]_vars

\* The executor runs every task that is ready: run_server_int is resumed
\* whenever its awaited bind or race can resolve, and a waiter is resumed
\* once the completion token is Set.  Nothing makes a client connect, an
\* accept fail, or the caller call cancel() or start waiting.
FairSpec ==
    /\ Spec
    /\ WF_vars(Supervisor)
    /\ \A w \in Waiters : WF_vars(WaitResolve(w))

\* ---------------------------------------------------------------- claims
AcceptFailed == result = "AcceptError" \/ \E i \in TaskIds : task[i] = "err"

\* C1: under fair scheduling, once cancel() has been called the task
\* eventually terminates with Interrupted, unless the bind failed or an
\* accept attempt failed; connections may keep arriving meanwhile.
C1_CancelTerminates ==
    IsCanceled(cancellation)
        ~> (result = "Interrupted" \/ result = "BindError" \/ AcceptFailed)

\* C1 witness: interrupted after connections were accepted.
C1_Witness ==
    /\ result = "Interrupted"
    /\ accepted = MaxConns
    /\ ~AcceptFailed

\* In a race (entered or about to be) with cancel() called and the accept
\* attempt still pending.
CanceledWhilePending ==
    /\ pc \in {"race", "racing"}
    /\ IsCanceled(cancellation)
    /\ task[incoming] = "accepting"

\* C2: when cancel() has been called and the accept attempt of the current
\* race is pending, the supervisor can take its next step without any
\* connection, and that step terminates it with Interrupted and leaves the
\* accept attempt pending.
C2_CancelDoesNotWaitForAccept ==
    /\ [](CanceledWhilePending => ENABLED Supervisor)
    /\ [][(CanceledWhilePending /\ pc' # pc)
            => /\ pc' = "done"
               /\ result' = "Interrupted"
               /\ incoming' = incoming
               /\ task'[incoming] = "accepting"]_vars

\* C2 witness: terminated by a cancel that came during the race, no
\* connection has ever arrived and the abandoned attempt is still pending.
C2_Witness ==
    /\ pc = "done"
    /\ result = "Interrupted"
    /\ how = "race_cancel"
    /\ accepted = 0
    /\ incoming # 0
    /\ task[incoming] = "accepting"
    /\ \A i \in TaskIds : task[i] \in {"none", "accepting"}

Published == completion = [state |-> "Set", value |-> local_addr(boundAddr)]

C4_BindFailureResolvesWaiter ==
    /\ (result = "BindError") ~> WaitReady(completion)
    /\ \A w \in Waiters :
          (result = "BindError" /\ waiter[w].st = "waiting")
              ~> (waiter[w].st = "resolved")

\* C5: the task ends with Interrupted only if cancel() was called; a task
\* that ended without a cancel() ended with a bind or an accept error.
C5_InterruptedOnlyIfCanceled ==
    /\ result = "Interrupted" => IsCanceled(cancellation) /\ cancelCalls >= 1
    /\ (pc = "done" /\ cancelCalls = 0)
           => result \in {"BindError", "AcceptError"}

\* C5 witness: a task that ended with Interrupted, and the accept attempt
\* it abandoned has failed since.
C5_Witness ==
    /\ result = "Interrupted"
    /\ incoming # 0
    /\ task[incoming] = "err"

\* C6: the task never ends with Ok: a terminated task carries Interrupted,
\* a bind error or an accept error, and a running task carries no result.
C6_NeverOk ==
    /\ result # "Ok"
    /\ pc = "done" <=> result \in {"Interrupted", "BindError", "AcceptError"}
    /\ pc # "done" <=> result = "none"

\* C6 witness: terminated by cancellation after accepting connections.
C6_Witness ==
    /\ pc = "done"
    /\ how = "race_cancel"
    /\ accepted >= 1

\* C7: every call of cancel() leaves the signal Canceled, changes nothing
\* of the supervisor, its tasks or its outcome, and a call after the first
\* changes nothing at all but the count of calls.
C7_CancelIdempotent ==
    /\ [](cancelCalls >= 1 => IsCanceled(cancellation))
    /\ [][cancelCalls' # cancelCalls
            => /\ IsCanceled(cancellation')
               /\ UNCHANGED <<pc, result, completion, boundAddr, task,
                              incoming, listener, accepted, waiter, how,
                              completeCalls, raceOp, lateSpawns>>]_vars
    /\ [][(cancelCalls >= 1 /\ cancelCalls' # cancelCalls)
            => UNCHANGED <<cancellation, cancelPc>>]_vars

\* C7 witness: cancel() was called more than once while the supervisor was
\* running, and the task ended with Interrupted.
C7_Witness ==
    /\ cancelCalls >= 2
    /\ cancelPc # "done"
    /\ result = "Interrupted"

\* C8: complete() runs at most once, the completion signal is Set exactly
\* when it has run, and once Set the signal never changes.
C8_CompletedAtMostOnce ==
    /\ [](completeCalls <= 1)
    /\ [](WaitReady(completion) <=> completeCalls = 1)
    /\ [][WaitReady(completion) => completion' = completion]_vars

\* C8 witness: the signal is Set and the loop has gone round since.
C8_Witness ==
    /\ WaitReady(completion)
    /\ completeCalls = 1
    /\ accepted = MaxConns

\* C9: a waiter resolves only once complete(v) has run, a waiter is ready
\* to resolve whenever the signal is Set and blocked while it is Unset, and
\* every resolved waiter holds the one value v, the bound address.
C9_WaitersSeeSameValue ==
    /\ \A w \in Waiters :
          /\ waiter[w].st = "resolved"
                => /\ completeCalls >= 1
                   /\ waiter[w].seen = completion.value
                   /\ waiter[w].seen = local_addr(boundAddr)
          /\ waiter[w].st = "waiting"
                => (ENABLED WaitResolve(w) <=> completeCalls >= 1)
    /\ \A v, w \in Waiters :
          (waiter[v].st = "resolved" /\ waiter[w].st = "resolved")
              => waiter[v].seen = waiter[w].seen

\* C9 witness: every waiter has resolved, one that waited before
\* complete() ran and one that began to wait after it.
C9_Witness ==
    /\ \A w \in Waiters : waiter[w].st = "resolved"
    /\ \E v, w \in Waiters : waiter[v].early /\ ~waiter[w].early

\* C10: a race that begins when cancel() has already been called resolves
\* to the Interrupted fallback, whatever the state of the accept attempt.
C10_RaceAfterCancelIsFallback ==
    [][(pc = "race" /\ IsCanceled(cancellation) /\ pc' # pc)
          => (pc' = "done" /\ result' = "Interrupted")]_vars

\* C10 witness: the race began after cancel() with the accept attempt
\* already finished with a connection, and resolved to the fallback.
C10_Witness ==
    /\ how = "race_start"
    /\ raceOp = "ok"
    /\ result = "Interrupted"
    /\ incoming # 0
    /\ task[incoming] = "ok"

\* The step in which the supervisor takes the Err of its accept task out of
\* the race.
TakesAcceptError ==
    /\ pc = "racing"
    /\ task[incoming] = "err"
    /\ task'[incoming] # "err"

\* C11: the step that takes an accept error out of the race terminates the
\* task with that error; a task terminated with an accept error has no
\* accept attempt left, no listener to accept on, and stays terminated.
C11_AcceptErrorIsFatal ==
    /\ [][TakesAcceptError
            => (pc' = "done" /\ result' = "AcceptError")]_vars
    /\ [](result = "AcceptError"
            => /\ pc = "done"
               /\ \A i \in TaskIds : task[i] = "none"
               /\ listener = Dropped)
    /\ [][result = "AcceptError" => UNCHANGED <<pc, result, task>>]_vars

\* C11 witness: an accept error ended the task after a connection had been
\* accepted, while cancel() had been called too.
C11_Witness ==
    /\ result = "AcceptError"
    /\ accepted >= 1
    /\ cancelCalls >= 1

\* C12: a failed bind ends the task with the bind error, whether or not
\* cancel() was called, and then no accept task exists or ever will, no
\* race has begun or ever will, and the listener is never bound.
C12_BindErrorPropagates ==
    /\ [][(pc = "bind" /\ pc' = "done") => result' = "BindError"]_vars
    /\ [](result = "BindError"
            => /\ pc = "done"
               /\ \A i \in TaskIds : task[i] = "none"
               /\ incoming = 0
               /\ raceOp = "none"
               /\ accepted = 0
               /\ lateSpawns = 0
               /\ listener = Unbound)
    /\ [][result = "BindError"
            => UNCHANGED <<pc, result, task, incoming, raceOp, listener>>]_vars

\* C12 witness: the bind failed after cancel() had been called.
C12_Witness ==
    /\ result = "BindError"
    /\ cancelPc = "bind"

\* C13: a call of cancel() made after the task has terminated changes
\* neither the outcome nor the completion signal nor any task.
C13_CancelAfterTerminationIsNoOp ==
    [][(pc = "done" /\ cancelCalls' # cancelCalls)
          => UNCHANGED <<pc, result, how, completion, waiter, task, incoming,
                         listener, boundAddr, accepted, completeCalls>>]_vars

\* C13 witness: the first cancel() came after the task had ended with a
\* bind or an accept error.
C13_Witness ==
    /\ cancelPc = "done"
    /\ result \in {"BindError", "AcceptError"}
    /\ IsCanceled(cancellation)

\* The lifecycle states of spec.md 3, in their order.
Lifecycle(p) ==
    CASE p = "bind" -> 1                          \* Starting
      [] p = "complete" -> 2                      \* Listening
      [] p \in {"spawn", "race", "racing"} -> 3   \* Looping
      [] p = "done" -> 4                          \* Terminated

\* C14: the lifecycle never steps back: Starting goes to Listening or
\* Terminated, Listening to Looping, Looping to Looping or Terminated, and
\* Terminated is left by no step and keeps its result.
C14_LifecycleMonotonic ==
    /\ [][Lifecycle(pc') >= Lifecycle(pc)]_vars
    /\ [][Lifecycle(pc) = 1 => Lifecycle(pc') \in {1, 2, 4}]_vars
    /\ [][Lifecycle(pc) = 2 => Lifecycle(pc') \in {2, 3}]_vars
    /\ [][Lifecycle(pc) = 4 => (pc' = pc /\ result' = result)]_vars

\* C14 witness: Terminated was reached out of the loop after it had gone
\* round, by an accept error.
C14_Witness ==
    /\ pc = "done"
    /\ how = "race_op"
    /\ accepted = MaxConns

Existing == {i \in TaskIds : task[i] # "none"}

\* The step that spawns accept task i.
Spawns(i) == task[i] = "none" /\ task'[i] = "accepting"

\* C15: at most one accept task exists at any time, and a task is spawned
\* only when no other exists: the first one, or the next one after the
\* previous one was taken out of a won race.
C15_OneAcceptInFlight ==
    /\ [](Cardinality(Existing) <= 1)
    /\ [](Existing \subseteq {incoming})
    /\ [][\A i \in TaskIds :
            Spawns(i) => /\ Existing = {}
                         /\ pc = "spawn"
                         /\ accepted = 0 => raceOp = "none"
                         /\ accepted > 0 => raceOp \in {"accepting", "ok"}]_vars

\* C15 witness: the task ended on cancellation after the loop had gone
\* round, and one accept attempt is left abandoned and pending.
C15_Witness ==
    /\ result = "Interrupted"
    /\ accepted = MaxConns
    /\ Cardinality({i \in TaskIds : task[i] = "accepting"}) = 1

\* C16 as stated: after a successful bind the listener is held by the
\* supervisor or by the one accept task, in every state.
C16_ListenerAlwaysHeld ==
    boundAddr # 0
        => \/ listener = HeldBySupervisor
           \/ \E i \in TaskIds :
                 listener = HeldByTask(i) /\ task[i] \in {"accepting", "ok"}

\* C16 amended: the listener has at most one holder, and whoever uses it
\* holds it: the supervisor from the bind to the first spawn and from a won
\* race to the next spawn, else the one accept task.  It goes back to the
\* supervisor only out of a race won by a successful accept, and it is
\* dropped only by an accept that fails or with the result of an attempt
\* that the terminated supervisor abandoned.
C16_ListenerNeverAliased ==
    /\ [](boundAddr # 0 <=> listener # Unbound)
    /\ [](pc \in {"complete", "spawn"} <=> listener = HeldBySupervisor)
    /\ [](\A i \in TaskIds :
            /\ task[i] = "accepting" => listener = HeldByTask(i)
            /\ listener = HeldByTask(i) => task[i] \in {"accepting", "ok"})
    /\ [][(listener # HeldBySupervisor /\ listener' = HeldBySupervisor)
            => \/ pc = "bind"
               \/ /\ pc = "racing"
                  /\ listener = HeldByTask(incoming)
                  /\ task[incoming] = "ok"]_vars
    /\ [][(listener # Dropped /\ listener' = Dropped)
            => \/ \E i \in TaskIds :
                     listener = HeldByTask(i) /\ task'[i] = "err"
               \/ pc' = "done" /\ result' = "Interrupted"]_vars

\* C16 witness: the listener is back with the supervisor after a won race.
C16_Witness ==
    /\ listener = HeldBySupervisor
    /\ pc = "spawn"
    /\ accepted >= 1

\* The step in which a connection wins the race.
WinsRace == pc = "racing" /\ pc' = "spawn"

\* C17: after cancel() a connection wins at most the race that was in
\* flight when cancel() was called, at most one accept task is spawned (the
\* one that follows that race, or the one the supervisor was about to spawn),
\* a race that begins after cancel() ends the task, and the task ends with
\* Interrupted unless the bind or an accept failed.
C17_CancelSeenAtNextRace ==
    /\ [](lateSpawns <= 1)
    /\ [][(IsCanceled(cancellation) /\ WinsRace)
            => (cancelPc = "racing" /\ lateSpawns = 0)]_vars
    /\ [][(IsCanceled(cancellation) /\ \E i \in TaskIds : Spawns(i))
            => /\ lateSpawns = 0
               /\ cancelPc \in {"bind", "complete", "spawn", "racing"}]_vars
    /\ [][(pc = "race" /\ IsCanceled(cancellation) /\ pc' # pc)
            => pc' = "done"]_vars
    /\ [](pc = "done" /\ IsCanceled(cancellation) /\ cancelPc # "done"
              /\ ~AcceptFailed /\ result # "BindError"
            => result = "Interrupted")

\* C17 witness: cancel() came during a race, a connection still won that
\* race, one more accept task was spawned and the next race ended the task.
C17_Witness ==
    /\ result = "Interrupted"
    /\ cancelPc = "racing"
    /\ lateSpawns = 1
    /\ how = "race_start"

\* C18: once the task has terminated no accept task is spawned, the
\* outcome stays as it is and no connection is counted; an abandoned task
\* only moves from accepting to finished.
C18_NoAcceptAfterTermination ==
    [][pc = "done"
         => /\ UNCHANGED <<pc, result, how, incoming, accepted, raceOp,
                           lateSpawns, completion>>
            /\ \A i \in TaskIds :
                  \/ task'[i] = task[i]
                  \/ task[i] = "accepting" /\ task'[i] \in {"ok", "err"}]_vars

\* C18 witness: the abandoned task was pending when the task terminated on
\* cancellation and has accepted a connection since.
C18_Witness ==
    /\ pc = "done"
    /\ result = "Interrupted"
    /\ raceOp = "accepting"
    /\ how = "race_start"
    /\ task[incoming] = "ok"

\* C19: whenever an accept task exists or has existed, a race has begun,
\* or the task has ended with Interrupted or an accept error, the
\* completion signal is Set with the bound address.
C19_PublishedBeforeAccept ==
    (\/ Existing # {}
     \/ incoming # 0
     \/ pc \in {"spawn", "race", "racing"}
     \/ raceOp # "none"
     \/ accepted > 0
     \/ lateSpawns > 0
     \/ result \in {"Interrupted", "AcceptError"})
        => (Published /\ completeCalls = 1)

\* C19 witness: cancel() came before the address was published, and the
\* task ended with Interrupted with the address published.
C19_Witness ==
    /\ cancelPc \in {"bind", "complete"}
    /\ result = "Interrupted"
    /\ Published

====
